---- MODULE Spec2Model ----
(***************************************************************************)
(* Kubernetes config comparator: the backend's compareResources and the    *)
(* ResourceComparator component's diff view, line selection and            *)
(* mergeSelectedChanges.                                                   *)
(*                                                                         *)
(* A Kubernetes object is a record [name, type, data]; its data is a       *)
(* record [defined, entries] where entries is the object's key/value       *)
(* pairs in JavaScript property order, which is insertion order for the    *)
(* keys used here (none is an integer index).  A text is a sequence of     *)
(* lines.                                                                  *)
(***************************************************************************)
EXTENDS Integers, Sequences, FiniteSets, TLC

VARIABLES
    mainStore,          \* main cluster: [secrets, configMaps], lists of objects
    replicaStore,       \* replica cluster: [secrets, configMaps]
    comparisons,        \* App state `comparisons`: response of compare-resources
    selectedComparison, \* ResourceComparator state
    dialogOpen,         \* ResourceComparator state (diff viewer dialog)
    showDecodedContent, \* ResourceComparator state (Decode Base64 switch)
    currentTab,         \* ResourceComparator state: 0 Diff View, 1 Selected Changes
    selectedLines,      \* ResourceComparator state: list of SelectedLine
    lastMerge,          \* the call of mergeSelectedChanges just made, if any
    confirmDialog,      \* ResourceComparator state: [open, resource, direction]
    error,              \* App state: the error alert
    success,            \* App state: the success alert
    lastRequest,        \* the call of onApplyChanges just made, if any
    mainCluster,        \* backend: the client of the main cluster, or null
    replicaCluster,     \* backend: the client of the replica cluster, or null
    lastResponse        \* backend: the request just answered, if any

vars == <<mainStore, replicaStore, comparisons, selectedComparison, dialogOpen,
          showDecodedContent, currentTab, selectedLines, lastMerge,
          confirmDialog, error, success, lastRequest,
          mainCluster, replicaCluster, lastResponse>>

\* the backend's own state
backend == <<mainCluster, replicaCluster, lastResponse>>

----------------------------------------------------------------------------
(* Bounds *)

MaxKeys == 2        \* properties of an object drawn for compareResources
MaxItems == 2       \* resources of a list drawn for compareResources
MaxSel == 2         \* selected lines in the component
MaxMergeLines == 2  \* selected lines drawn for a call of mergeSelectedChanges
WideKeys == 5       \* properties of the widest Secret of the component's worlds

----------------------------------------------------------------------------
(* JavaScript values *)

Null == [null |-> TRUE]
Undefined == "undefined"
NoData == [defined |-> FALSE, entries |-> <<>>]

Obj(entries) == [defined |-> TRUE, entries |-> entries]

Namespace == "default"

RECURSIVE SeqToSet(_)
SeqToSet(s) == IF s = <<>> THEN {} ELSE {Head(s)} \cup SeqToSet(Tail(s))

\* Object.keys(o), in property order
ObjectKeys(entries) == [i \in 1..Len(entries) |-> entries[i][1]]

HasKey(entries, k) == \E i \in 1..Len(entries) : entries[i][1] = k

\* o[k]
Get(entries, k) ==
    IF HasKey(entries, k)
    THEN entries[CHOOSE i \in 1..Len(entries) : entries[i][1] = k][2]
    ELSE Undefined

\* a variant that leaves the assigned property alone in the object
SetKeyAlone(entries, k, v) == << <<k, v>> >>

\* o[k] = v : an existing property keeps its place, a new one is appended
SetKey(entries, k, v) ==
    IF HasKey(entries, k)
    THEN [i \in 1..Len(entries) |->
             IF entries[i][1] = k THEN <<k, v>> ELSE entries[i]]
    ELSE Append(entries, <<k, v>>)

\* {...a, ...b}
RECURSIVE Spread(_, _)
Spread(a, b) ==
    IF b = <<>> THEN a
    ELSE Spread(SetKey(a, Head(b)[1], Head(b)[2]), Tail(b))

\* the object as a mapping, whatever the order of its properties
AsMap(entries) == {<<entries[i][1], entries[i][2]>> : i \in 1..Len(entries)}

\* data || {}
OrEmpty(data) == IF data.defined THEN data.entries ELSE <<>>

----------------------------------------------------------------------------
(* JSON.stringify(o, null, 2) for an object of string values: one line    *)
(* per property, every property line but the last ending in a comma.      *)

\* a line of text: kind "open" is {, "close" is }, "empty" is {}, "kv" is
\*   "key": "value" with an optional comma, "text" is a line of a ConfigMap
\*   value; eol tells whether the line ends in a newline
Line(kind, key, value, comma, eol) ==
    [kind |-> kind, key |-> key, value |-> value, comma |-> comma, eol |-> eol]

JSONStringify(entries) ==
    IF entries = <<>> THEN <<Line("empty", "", "", FALSE, FALSE)>>
    ELSE <<Line("open", "", "", FALSE, TRUE)>>
         \o [i \in 1..Len(entries) |->
                Line("kv", entries[i][1], entries[i][2], i < Len(entries), TRUE)]
         \o <<Line("close", "", "", FALSE, FALSE)>>

----------------------------------------------------------------------------
(* diff.createPatch(fileName, oldStr, newStr, oldHeader, newHeader): a      *)
(* unified diff with the library's default of 4 lines of context.  A patch  *)
(* is a sequence of patch lines [op, line]: the header lines, then for each *)
(* hunk an "@@" line and the body lines with op "-", "+" or " ".            *)

Context == 4

Max(a, b) == IF a >= b THEN a ELSE b

RECURSIVE LcsLen(_, _)
LcsLen(a, b) ==
    IF a = <<>> \/ b = <<>> THEN 0
    ELSE IF Head(a) = Head(b) THEN 1 + LcsLen(Tail(a), Tail(b))
    ELSE Max(LcsLen(Tail(a), b), LcsLen(a, Tail(b)))

PatchLine(op, line) == [op |-> op, line |-> line]

\* the edit script of a line diff: common lines are kept, removed lines
\* come before added ones
RECURSIVE DiffLines(_, _)
DiffLines(a, b) ==
    IF a = <<>> THEN [i \in 1..Len(b) |-> PatchLine("+", b[i])]
    ELSE IF b = <<>> THEN [i \in 1..Len(a) |-> PatchLine("-", a[i])]
    ELSE IF Head(a) = Head(b)
         THEN <<PatchLine(" ", Head(a))>> \o DiffLines(Tail(a), Tail(b))
    ELSE IF LcsLen(Tail(a), b) >= LcsLen(a, Tail(b))
         THEN <<PatchLine("-", Head(a))>> \o DiffLines(Tail(a), b)
    ELSE <<PatchLine("+", Head(b))>> \o DiffLines(a, Tail(b))

\* a common line is part of a hunk when a changed line is at most Context
\* lines away
InHunk(script, i) ==
    \E j \in 1..Len(script) :
        /\ script[j].op # " "
        /\ i - j <= Context
        /\ j - i <= Context

RECURSIVE HunkLines(_, _)
HunkLines(script, i) ==
    IF i > Len(script) THEN <<>>
    ELSE (IF InHunk(script, i)
          THEN (IF i = 1 \/ ~InHunk(script, i - 1)
                THEN <<PatchLine("@@", Undefined)>> ELSE <<>>)
               \o <<script[i]>>
          ELSE <<>>)
         \o HunkLines(script, i + 1)

createPatch(fileName, oldStr, newStr) ==
    <<PatchLine("Index:", fileName), PatchLine("===", Undefined),
      PatchLine("---", fileName), PatchLine("+++", fileName)>>
    \o HunkLines(DiffLines(oldStr, newStr), 1)

----------------------------------------------------------------------------
(* Backend: compareResources *)

Resource(name, type, data) == [name |-> name, type |-> type, data |-> data]

\* a variant that keeps the key of the first resource only
MapKeysFirstOnly(resources) ==
    IF resources = <<>> THEN <<>> ELSE <<resources[1].name>>

\* the keys of the Map built by forEach(resource => map.set(name, resource))
RECURSIVE MapKeys(_)
MapKeys(resources) ==
    IF resources = <<>> THEN <<>>
    ELSE LET rest == MapKeys(SubSeq(resources, 1, Len(resources) - 1))
             last == resources[Len(resources)].name
         IN IF last \in SeqToSet(rest) THEN rest ELSE Append(rest, last)

\* map.get(name): the last resource set under that name, else undefined
MapGet(resources, name) ==
    IF \E i \in 1..Len(resources) : resources[i].name = name
    THEN resources[CHOOSE i \in 1..Len(resources) :
                      /\ resources[i].name = name
                      /\ \A j \in (i + 1)..Len(resources) :
                             resources[j].name # name]
    ELSE Null

\* a variant that keeps the elements of the first list only
UnionFirstOnly(a, b) == a

\* new Set([...a, ...b]) in insertion order
RECURSIVE Union(_, _)
Union(a, b) ==
    IF b = <<>> THEN a
    ELSE Union(IF Head(b) \in SeqToSet(a) THEN a ELSE Append(a, Head(b)),
               Tail(b))

\* a variant that compares the data fields as they are, a missing one unlike {}
compareResourceRawData(resourceName, mainResource, replicaResource) ==
    IF mainResource = Null /\ replicaResource # Null
    THEN [status |-> "replica-only", diff |-> Null]
    ELSE IF mainResource # Null /\ replicaResource = Null
    THEN [status |-> "main-only", diff |-> Null]
    ELSE IF mainResource.data # replicaResource.data
    THEN [status |-> "different",
          diff |-> [text |-> createPatch(resourceName,
                                 JSONStringify(OrEmpty(mainResource.data)),
                                 JSONStringify(OrEmpty(replicaResource.data)))]]
    ELSE [status |-> "identical", diff |-> Null]

\* status and diff of one resource name
compareResource(resourceName, mainResource, replicaResource) ==
    IF mainResource = Null /\ replicaResource # Null
    THEN [status |-> "replica-only", diff |-> Null]
    ELSE IF mainResource # Null /\ replicaResource = Null
    THEN [status |-> "main-only", diff |-> Null]
    ELSE IF mainResource # Null /\ replicaResource # Null
    THEN LET mainDataStr == JSONStringify(OrEmpty(mainResource.data))
             replicaDataStr == JSONStringify(OrEmpty(replicaResource.data))
         IN IF mainDataStr # replicaDataStr
            THEN [status |-> "different",
                  diff |-> [text |-> createPatch(resourceName, mainDataStr,
                                                 replicaDataStr)]]
            ELSE [status |-> "identical", diff |-> Null]
    ELSE [status |-> "identical", diff |-> Null]

\* a variant that takes a resource of an empty data map for a missing one
compareResourcesEmptyAsMissing(mainResources, replicaResources, resourceType, namespace) ==
    LET allResourceNames ==
            Union(MapKeys(mainResources), MapKeys(replicaResources))
        present(resource) ==
            IF resource # Null /\ resource.data = Obj(<<>>) THEN Null
            ELSE resource
    IN [i \in 1..Len(allResourceNames) |->
           LET resourceName == allResourceNames[i]
               mainResource == present(MapGet(mainResources, resourceName))
               replicaResource ==
                   present(MapGet(replicaResources, resourceName))
               r == compareResource(resourceName, mainResource,
                                    replicaResource)
           IN [name |-> resourceName,
               type |-> resourceType,
               namespace |-> namespace,
               status |-> r.status,
               mainExists |-> mainResource # Null,
               replicaExists |-> replicaResource # Null,
               diff |-> r.diff,
               mainResource |-> mainResource,
               replicaResource |-> replicaResource]]

compareResources(mainResources, replicaResources, resourceType, namespace) ==
    LET allResourceNames ==
            Union(MapKeys(mainResources), MapKeys(replicaResources))
    IN [i \in 1..Len(allResourceNames) |->
           LET resourceName == allResourceNames[i]
               mainResource == MapGet(mainResources, resourceName)
               replicaResource == MapGet(replicaResources, resourceName)
               r == compareResource(resourceName, mainResource,
                                    replicaResource)
           IN [name |-> resourceName,
               type |-> resourceType,
               namespace |-> namespace,
               status |-> r.status,
               mainExists |-> mainResource # Null,
               replicaExists |-> replicaResource # Null,
               diff |-> r.diff,
               mainResource |-> mainResource,
               replicaResource |-> replicaResource]]

----------------------------------------------------------------------------
(* ResourceComparator: decoding and the diffs it renders *)

\* atob on the values of the model: "QQ==" and "QR==" both decode to "A"
\* (the unused bits of the last symbol are dropped), "Qg==" decodes to "B",
\* "QWxpY2U=" to "Alice", anything else is not base64 and makes atob throw
AtobTable == [v \in {"QQ==", "QR==", "Qg==", "QWxpY2U="} |->
                 IF v = "Qg==" THEN "B"
                 ELSE IF v = "QWxpY2U=" THEN "Alice" ELSE "A"]

atob(v) == IF v \in DOMAIN AtobTable
           THEN [ok |-> TRUE, value |-> AtobTable[v]]
           ELSE [ok |-> FALSE, value |-> Undefined]

\* a variant that takes every Secret for an opaque one
isOpaqueSecretAnyType(comparison) == comparison.type = "Secret"

isOpaqueSecret(comparison) ==
    IF comparison.type # "Secret" THEN FALSE
    ELSE LET mainType == IF comparison.mainResource = Null THEN Undefined
                         ELSE comparison.mainResource.type
             replicaType == IF comparison.replicaResource = Null THEN Undefined
                            ELSE comparison.replicaResource.type
         IN mainType = "Opaque" \/ replicaType = "Opaque"

\* a variant that gives the data up as it is when one value is not base64
decodeBase64DataOrNone(data) ==
    IF ~data.defined THEN data
    ELSE IF \E i \in 1..Len(data.entries) : ~atob(data.entries[i][2]).ok
    THEN data
    ELSE Obj([i \in 1..Len(data.entries) |->
                 <<data.entries[i][1], atob(data.entries[i][2]).value>>])

decodeBase64Data(data) ==
    IF ~data.defined THEN data
    ELSE Obj([i \in 1..Len(data.entries) |->
                 LET key == data.entries[i][1]
                     value == data.entries[i][2]
                 IN IF atob(value).ok THEN <<key, atob(value).value>>
                    ELSE <<key, value>>])

\* resource?.data
DataOf(resource) == IF resource = Null THEN NoData ELSE resource.data

\* the lines of a ConfigMap value; the last line has no newline
MultiLine == [v \in {"l1\nl2"} |-> <<"l1", "l2">>]

TextLines(v) ==
    LET ls == IF v = "" THEN <<>>
              ELSE IF v \in DOMAIN MultiLine THEN MultiLine[v]
              ELSE <<v>>
    IN [i \in 1..Len(ls) |-> Line("text", "", ls[i], FALSE, i < Len(ls))]

\* value || ''
OrBlank(v) == IF v = Undefined THEN "" ELSE v

createConfigMapKeyDiffs(comparison) ==
    IF comparison.mainResource = Null /\ comparison.replicaResource = Null
    THEN <<>>
    ELSE LET mainData == OrEmpty(DataOf(comparison.mainResource))
             replicaData == OrEmpty(DataOf(comparison.replicaResource))
             allKeys == Union(ObjectKeys(mainData), ObjectKeys(replicaData))
             differs(key) == OrBlank(Get(mainData, key))
                                 # OrBlank(Get(replicaData, key))
             keys == SelectSeq(allKeys, differs)
         IN [i \in 1..Len(keys) |->
                [key |-> keys[i],
                 diff |-> [text |->
                     createPatch(keys[i],
                                 TextLines(OrBlank(Get(mainData, keys[i]))),
                                 TextLines(OrBlank(Get(replicaData, keys[i]))))]]]

createDecodedDiff(comparison, decode) ==
    IF comparison.mainResource = Null /\ comparison.replicaResource = Null
    THEN Null
    ELSE LET gate == decode /\ isOpaqueSecret(comparison)
             mainData == IF gate
                         THEN decodeBase64Data(DataOf(comparison.mainResource))
                         ELSE DataOf(comparison.mainResource)
             replicaData == IF gate
                            THEN decodeBase64Data(DataOf(comparison.replicaResource))
                            ELSE DataOf(comparison.replicaResource)
             mainDataStr == JSONStringify(OrEmpty(mainData))
             replicaDataStr == JSONStringify(OrEmpty(replicaData))
         IN IF mainDataStr = replicaDataStr THEN Null
            ELSE [text |-> createPatch(comparison.name, mainDataStr,
                                       replicaDataStr)]

\* the selectable diffs shown on the Diff View tab, each with the key
\* passed to renderSelectableDiff
renderDiffContent(comparison, decode) ==
    IF comparison.type = "ConfigMap"
    THEN createConfigMapKeyDiffs(comparison)
    ELSE IF isOpaqueSecret(comparison) /\ decode
    THEN (IF createDecodedDiff(comparison, decode) # Null
          THEN <<[key |-> Undefined,
                  diff |-> createDecodedDiff(comparison, decode)]>>
          ELSE <<>>)
    ELSE IF comparison.diff # Null
    THEN <<[key |-> Undefined, diff |-> comparison.diff]>>
    ELSE <<>>

----------------------------------------------------------------------------
(* renderSelectableDiff: the line mapping of a patch *)

\* texts of the model that begin with "--", with "++", or are blank
DashDashTexts == {"--x"}
PlusPlusTexts == {"++x"}
BlankTexts == {" "}

StartsWithDashDash(line) == line.kind = "text" /\ line.value \in DashDashTexts
StartsWithPlusPlus(line) == line.kind = "text" /\ line.value \in PlusPlusTexts
IsBlank(line) == line.kind = "text" /\ line.value \in BlankTexts

\* the filter of the patch lines
IsContentLine(pl) ==
    /\ pl.op # "@@"
    /\ ~(pl.op = "---" \/ (pl.op = "-" /\ StartsWithDashDash(pl.line)))
    /\ ~(pl.op = "+++" \/ (pl.op = "+" /\ StartsWithPlusPlus(pl.line)))
    /\ pl.op # "Index:"
    /\ ~(pl.op = " " /\ IsBlank(pl.line))

LineId(side, num) == [side |-> side, num |-> num]

MapEntry(side, num, content, type) ==
    [lineId |-> LineId(side, num), content |-> content, type |-> type]

RECURSIVE walkContentLines(_, _, _)
walkContentLines(contentLines, oldLineNum, newLineNum) ==
    IF contentLines = <<>> THEN <<>>
    ELSE LET line == Head(contentLines)
             rest == Tail(contentLines)
         IN IF line.op = "-"
            THEN <<MapEntry("L", oldLineNum, line.line, "deletion")>>
                 \o walkContentLines(rest, oldLineNum + 1, newLineNum)
            ELSE IF line.op = "+"
            THEN <<MapEntry("R", newLineNum, line.line, "addition")>>
                 \o walkContentLines(rest, oldLineNum, newLineNum + 1)
            ELSE IF line.op = " "
            THEN <<MapEntry("L", oldLineNum, line.line, "context"),
                   MapEntry("R", newLineNum, line.line, "context")>>
                 \o walkContentLines(rest, oldLineNum + 1, newLineNum + 1)
            ELSE walkContentLines(rest, oldLineNum, newLineNum)

\* a variant whose counters start at 0
lineMappingFromZero(diff) ==
    walkContentLines(SelectSeq(diff.text, IsContentLine), 0, 0)

lineMapping(diff) ==
    walkContentLines(SelectSeq(diff.text, IsContentLine), 1, 1)

\* lineMapping.get(lineId)
MappingGet(mapping, lineId) ==
    IF \E i \in 1..Len(mapping) : mapping[i].lineId = lineId
    THEN mapping[CHOOSE i \in 1..Len(mapping) : mapping[i].lineId = lineId]
    ELSE Null

\* `${side}-${num}`
LineIdText(lineId) == lineId.side \o "-" \o ToString(lineId.num)

\* 0, '', null and undefined are falsy
Falsy(x) == x = Undefined \/ x = ""

\* the SelectedLine built by handleLineClick
SelectedLine(resourceName, resourceType, namespace, key, lineId, lineData) ==
    [id |-> resourceName \o "-" \o (IF Falsy(key) THEN "main" ELSE key)
                \o "-" \o LineIdText(lineId),
     resourceName |-> resourceName,
     resourceType |-> resourceType,
     namespace |-> namespace,
     key |-> key,
     lineType |-> lineData.type,
     lineContent |-> lineData.content,
     lineNumber |-> lineId.num,
     side |-> IF lineId.side = "L" THEN "left" ELSE "right"]

isLineSelected(lines, lineId) ==
    \E i \in 1..Len(lines) : lines[i].id = lineId

\* a variant that never removes a line
handleLineSelectionAppend(lines, line, isSelected) == Append(lines, line)

handleLineSelection(lines, line, isSelected) ==
    IF isSelected THEN Append(lines, line)
    ELSE LET keep(l) == l.id # line.id IN SelectSeq(lines, keep)

----------------------------------------------------------------------------
(* mergeSelectedChanges *)

\* lineContent.match(/"([^"]+)":/): the key of a property line.  Keys are
\* Kubernetes data keys (letters, digits, '-', '_', '.'), so the leftmost
\* match of a property line is its key; brace lines have no match
matchKey(lineContent) ==
    IF lineContent.kind = "kv" THEN lineContent.key ELSE Undefined

\* the key of changesByResource a line is filed under
GroupKey(line) ==
    line.resourceName \o "-" \o line.resourceType \o "-" \o line.namespace
        \o "-" \o (IF Falsy(line.key) THEN "default" ELSE line.key)

\* Object.keys(changesByResource)
RECURSIVE GroupKeys(_)
GroupKeys(lines) ==
    IF lines = <<>> THEN <<>>
    ELSE LET rest == GroupKeys(SubSeq(lines, 1, Len(lines) - 1))
             last == GroupKey(lines[Len(lines)])
         IN IF last \in SeqToSet(rest) THEN rest ELSE Append(rest, last)

changesOf(lines, resourceKey) ==
    LET inGroup(l) == GroupKey(l) = resourceKey IN SelectSeq(lines, inGroup)

\* the keys recovered from the lines of a group, in order
RECURSIVE affectedKeysOf(_)
affectedKeysOf(changes) ==
    IF changes = <<>> THEN <<>>
    ELSE LET rest == affectedKeysOf(SubSeq(changes, 1, Len(changes) - 1))
             match == matchKey(changes[Len(changes)].lineContent)
         IN IF match = Undefined \/ match \in SeqToSet(rest) THEN rest
            ELSE Append(rest, match)

\* affectedKeys.forEach: a key the source has takes the source's value
RECURSIVE applyAffectedKeys(_, _, _)
applyAffectedKeys(mergedData, sourceData, affectedKeys) ==
    IF affectedKeys = <<>> THEN mergedData
    ELSE LET key == Head(affectedKeys)
         IN applyAffectedKeys(
                IF Get(sourceData, key) # Undefined
                THEN SetKey(mergedData, key, Get(sourceData, key))
                ELSE mergedData,
                sourceData, Tail(affectedKeys))

\* a variant that replaces the destination's data by the source's
mergeAllDataReplace(mergedData, sourceData) == sourceData

\* no key recovered: mergedResource.data = {...mergedResource.data, ...source}
mergeAllData(mergedData, sourceData) == Spread(mergedData, sourceData)

\* one round of Object.keys(changesByResource).forEach on mergedResource.data
applyChanges(mergedData, changes, sourceResource) ==
    LET firstChange == changes[1]
        sourceData == DataOf(sourceResource)
    IN IF firstChange.resourceType = "ConfigMap"
       THEN (IF ~Falsy(firstChange.key) /\ mergedData.defined
             THEN LET sourceValue ==
                          OrBlank(Get(OrEmpty(sourceData), firstChange.key))
                  IN Obj(SetKey(mergedData.entries, firstChange.key,
                                sourceValue))
             ELSE mergedData)
       ELSE (IF sourceData.defined /\ mergedData.defined
             THEN LET affectedKeys == affectedKeysOf(changes)
                  IN IF Len(affectedKeys) > 0
                     THEN Obj(applyAffectedKeys(mergedData.entries,
                                                sourceData.entries,
                                                affectedKeys))
                     ELSE Obj(mergeAllData(mergedData.entries,
                                           sourceData.entries))
             ELSE mergedData)

RECURSIVE applyGroups(_, _, _, _)
applyGroups(mergedData, resourceKeys, lines, sourceResource) ==
    IF resourceKeys = <<>> THEN mergedData
    ELSE applyGroups(
             applyChanges(mergedData, changesOf(lines, Head(resourceKeys)),
                          sourceResource),
             Tail(resourceKeys), lines, sourceResource)

sourceOf(comparison, direction) ==
    IF direction = "main-to-replica" THEN comparison.mainResource
    ELSE comparison.replicaResource

destinationOf(comparison, direction) ==
    IF direction = "main-to-replica" THEN comparison.replicaResource
    ELSE comparison.mainResource

\* what a call gives back: null, a resource, or a TypeError thrown
Returned(value) ==
    IF value = Null THEN [kind |-> "null", value |-> Null]
    ELSE [kind |-> "resource", value |-> value]

Thrown == [kind |-> "TypeError", value |-> Null]

\* mergeSelectedChanges past its first line
mergeInto(direction, lines, comparison) ==
    LET sourceResource == sourceOf(comparison, direction)
        destinationResource == destinationOf(comparison, direction)
    IN IF destinationResource = Null THEN Returned(sourceResource)
       ELSE LET mergedData == applyGroups(destinationResource.data,
                                          GroupKeys(lines), lines,
                                          sourceResource)
            IN \* console.log(sourceResource.data)
               IF sourceResource = Null THEN Thrown
               ELSE Returned([destinationResource EXCEPT !.data = mergedData])

\* a variant without the test of selectedLines.length
mergeLinesAnyLength(direction, lines, comparison) ==
    IF comparison = Null THEN Returned(Null)
    ELSE mergeInto(direction, lines, comparison)

mergeLines(direction, lines, comparison) ==
    IF Len(lines) = 0 \/ comparison = Null THEN Returned(Null)
    ELSE mergeInto(direction, lines, comparison)

mergeSelectedChanges(direction) ==
    mergeLines(direction, selectedLines, selectedComparison)

----------------------------------------------------------------------------
(* The clusters the component is run against *)

Store(secrets, configMaps) == [secrets |-> secrets, configMaps |-> configMaps]

Pair(main, replica) == [main |-> main, replica |-> replica]

WideKey(i) == "k" \o ToString(i)

\* a Secret of WideKeys properties; the replica differs in the last two,
\* the last but one a value that is not base64 and reads as the decoded
\* value of the main's
WideMain == [i \in 1..WideKeys |-> <<WideKey(i), "QQ==">>]
WideReplica == [i \in 1..WideKeys |->
                   <<WideKey(i), IF i = WideKeys THEN "Qg=="
                                 ELSE IF i = WideKeys - 1 THEN "A"
                                 ELSE "QQ==">>]

SecretPairs == {
    Pair(Obj(<< <<"user", "QQ==">>, <<"pass", "QQ==">> >>),
         Obj(<< <<"user", "QR==">>, <<"pass", "Qg==">> >>)),
    Pair(Obj(<<>>), Obj(<< <<"user", "QQ==">> >>)),
    Pair(NoData, Obj(<< <<"user", "Qg==">> >>)),
    Pair(Obj(<< <<"user", "QQ==">>, <<"old", "Qg==">> >>),
         Obj(<< <<"user", "Qg==">> >>)),
    Pair(Obj(WideMain), Obj(WideReplica)) }

ConfigMapPairs == {
    Pair(Obj(<< <<"a", "1">>, <<"b", "2">> >>),
         Obj(<< <<"a", "1">>, <<"b", "3">> >>)),
    Pair(Obj(<< <<"a", "1">>, <<"b", "2">> >>), NoData),
    Pair(Obj(<< <<"a", "1">> >>),
         Obj(<< <<"a", "1">>, <<"b", "l1\nl2">> >>)) }

\* "creds" and "app-config" in both clusters
Worlds ==
    { Pair(Store(<<Resource("creds", "Opaque", s.main)>>,
                 <<Resource("app-config", Undefined, c.main)>>),
           Store(<<Resource("creds", "Opaque", s.replica)>>,
                 <<Resource("app-config", Undefined, c.replica)>>))
      : s \in SecretPairs, c \in ConfigMapPairs }

\* a resource that one cluster lacks
OneSidedWorlds == {
    Pair(Store(<<Resource("creds", "Opaque", Obj(<< <<"user", "QQ==">> >>))>>,
               <<Resource("app-config", Undefined,
                          Obj(<< <<"a", "1">>, <<"b", "2">> >>))>>),
         Store(<<>>,
               <<Resource("app-config", Undefined,
                          Obj(<< <<"a", "1">>, <<"b", "3">> >>))>>)),
    Pair(Store(<<Resource("creds", "Opaque", Obj(<< <<"user", "QQ==">> >>))>>,
               <<>>),
         Store(<<Resource("creds", "Opaque", Obj(<< <<"user", "Qg==">> >>))>>,
               <<Resource("app-config", Undefined,
                          Obj(<< <<"a", "1">> >>))>>)) }

\* a Secret and a ConfigMap of one name, the ConfigMap with the key "main";
\* a ConfigMap whose values begin with "--" and "++" and whose replica has
\* one more key, of an empty value
CornerWorlds == {
    Pair(Store(<<Resource("creds", "Opaque", Obj(<<>>))>>,
               <<Resource("creds", Undefined, Obj(<< <<"main", "1">> >>))>>),
         Store(<<Resource("creds", "Opaque", Obj(<< <<"user", "QQ==">> >>))>>,
               <<Resource("creds", Undefined, Obj(<< <<"main", "2">> >>))>>)),
    Pair(Store(<<Resource("creds", "Opaque", Obj(<< <<"user", "QQ==">> >>))>>,
               <<Resource("app-config", Undefined,
                          Obj(<< <<"a", "--x">> >>))>>),
         Store(<<Resource("creds", "Opaque", Obj(<< <<"user", "QQ==">> >>))>>,
               <<Resource("app-config", Undefined,
                          Obj(<< <<"a", "++x">>, <<"b", "">> >>))>>)) }

\* the Secret "creds" with data in the main cluster and an empty data map
\* in the replica; a Secret that is not opaque and a ConfigMap, both with
\* base64 values
ScenarioWorlds == {
    Pair(Store(<<Resource("creds", "kubernetes.io/tls",
                          Obj(<< <<"user", "QQ==">> >>))>>,
               <<Resource("app-config", Undefined,
                          Obj(<< <<"a", "QQ==">> >>))>>),
         Store(<<Resource("creds", "kubernetes.io/tls",
                          Obj(<< <<"user", "QR==">> >>))>>,
               <<Resource("app-config", Undefined,
                          Obj(<< <<"a", "Qg==">> >>))>>)),
    Pair(Store(<<Resource("creds", "Opaque",
                          Obj(<< <<"user", "QWxpY2U=">> >>))>>,
               <<Resource("app-config", Undefined,
                          Obj(<< <<"a", "1">>, <<"b", "2">> >>))>>),
         Store(<<Resource("creds", "Opaque", Obj(<<>>))>>,
               <<Resource("app-config", Undefined,
                          Obj(<< <<"a", "1">>, <<"b", "3">> >>))>>)) }

AllWorlds == Worlds \cup OneSidedWorlds \cup CornerWorlds \cup ScenarioWorlds

----------------------------------------------------------------------------
(* App and the compare-resources endpoint *)

NoCall == [called |-> FALSE, direction |-> Undefined, result |-> Returned(Null)]

\* no call of onApplyChanges; the arguments of a call are resourceName,
\* resourceType, direction and resourceData
NoRequest == [sent |-> FALSE, resourceName |-> Undefined,
              resourceType |-> Undefined, direction |-> Undefined,
              resourceData |-> Null]

Request(resourceName, resourceType, direction, resourceData) ==
    [sent |-> TRUE, resourceName |-> resourceName,
     resourceType |-> resourceType, direction |-> direction,
     resourceData |-> resourceData]

\* null where the other values are strings
None == "null"

NoConfirm == [open |-> FALSE, resource |-> Null, direction |-> None]

\* the texts of the alerts
Compared == "Successfully compared resources"
FailedToApply == "Failed to apply changes"

\* the target cluster's create call: the object is added unless the
\* cluster rejects the call; an object of that name is a conflict
createNamespaced(resources, body, accepted) ==
    IF body = Null \/ ~accepted \/ MapGet(resources, body.name) # Null
    THEN [ok |-> FALSE, resources |-> resources]
    ELSE [ok |-> TRUE, resources |-> Append(resources, body)]

\* a variant that writes the object over the one of the same name
applyChangesEndpointReplacing(main, replica, resourceType, direction, resourceData, accepted) ==
    LET target == IF direction = "main-to-replica" THEN replica ELSE main
        put(resources) ==
            IF resourceData = Null \/ ~accepted
            THEN [ok |-> FALSE, resources |-> resources]
            ELSE IF MapGet(resources, resourceData.name) = Null
            THEN [ok |-> TRUE, resources |-> Append(resources, resourceData)]
            ELSE [ok |-> TRUE,
                  resources |-> [i \in 1..Len(resources) |->
                      IF resources[i].name = resourceData.name
                      THEN resourceData ELSE resources[i]]]
        newTarget ==
            IF resourceType = "Secret"
            THEN [target EXCEPT !.secrets = put(target.secrets).resources]
            ELSE [target EXCEPT !.configMaps = put(target.configMaps).resources]
    IN [ok |-> resourceData # Null /\ accepted,
        main |-> IF direction = "main-to-replica" THEN main ELSE newTarget,
        replica |-> IF direction = "main-to-replica" THEN newTarget
                    ELSE replica]

\* POST /api/apply-changes with both clusters configured: the response is
\* a success or the 500 of the catch, with the clusters as it leaves them
applyChangesEndpoint(main, replica, resourceType, direction, resourceData, accepted) ==
    LET target == IF direction = "main-to-replica" THEN replica ELSE main
        created ==
            IF resourceType = "Secret"
            THEN createNamespaced(target.secrets, resourceData, accepted)
            ELSE IF resourceType = "ConfigMap"
            THEN createNamespaced(target.configMaps, resourceData, accepted)
            ELSE [ok |-> TRUE, resources |-> <<>>]
        newTarget ==
            IF resourceType = "Secret"
            THEN [target EXCEPT !.secrets = created.resources]
            ELSE IF resourceType = "ConfigMap"
            THEN [target EXCEPT !.configMaps = created.resources]
            ELSE target
    IN [ok |-> created.ok,
        main |-> IF direction = "main-to-replica" THEN main ELSE newTarget,
        replica |-> IF direction = "main-to-replica" THEN newTarget
                    ELSE replica]

\* the response of POST /api/compare-resources for the one namespace
compareNamespace(main, replica, namespace) ==
    [namespace |-> namespace,
     secrets |-> compareResources(main.secrets, replica.secrets,
                                  "Secret", namespace),
     configMaps |-> compareResources(main.configMaps, replica.configMaps,
                                     "ConfigMap", namespace)]

\* the resources of every ResourceCard
RECURSIVE AllResources(_)
AllResources(cs) ==
    IF cs = <<>> THEN {}
    ELSE SeqToSet(Head(cs).secrets) \cup SeqToSet(Head(cs).configMaps)
         \cup AllResources(Tail(cs))

\* Compare Resources; the diff viewer is a modal dialog, the page under it
\* takes no click while it is open
handleCompareResources ==
    /\ ~dialogOpen
    /\ ~confirmDialog.open
    /\ error' = None
    /\ comparisons' = <<compareNamespace(mainStore, replicaStore, Namespace)>>
    /\ success' = Compared
    /\ lastMerge' = NoCall
    /\ lastRequest' = NoRequest
    /\ UNCHANGED <<backend, confirmDialog, mainStore, replicaStore,
                   selectedComparison, dialogOpen,
                   showDecodedContent, currentTab, selectedLines>>

\* App.handleApplyChanges, passed to the component as onApplyChanges: the
\* POST of /api/apply-changes, then on success the refresh of the
\* comparisons, on failure the error alert
onApplyChanges(resourceName, resourceType, direction, resourceData, accepted) ==
    LET response == applyChangesEndpoint(mainStore, replicaStore, resourceType,
                                         direction, resourceData, accepted)
    IN /\ lastRequest' = Request(resourceName, resourceType, direction,
                                 resourceData)
       /\ mainStore' = response.main
       /\ replicaStore' = response.replica
       /\ IF response.ok
          THEN /\ error' = None
               /\ comparisons' = <<compareNamespace(response.main,
                                                    response.replica,
                                                    Namespace)>>
               /\ success' = Compared
          ELSE /\ error' = FailedToApply
               /\ UNCHANGED <<comparisons, success>>

----------------------------------------------------------------------------
(* ResourceComparator: the handlers *)

\* the apply buttons a ResourceCard shows
CardOffers(resource, direction) ==
    \/ direction = "main-to-replica"
           /\ resource.mainExists /\ ~resource.replicaExists
    \/ direction = "replica-to-main"
           /\ resource.replicaExists /\ ~resource.mainExists
    \/ resource.status = "different"

\* an apply button of a card: it opens the confirmation dialog
handleApplyChanges(resource, direction) ==
    /\ ~dialogOpen
    /\ ~confirmDialog.open
    /\ resource \in AllResources(comparisons)
    /\ CardOffers(resource, direction)
    /\ confirmDialog' = [open |-> TRUE, resource |-> resource,
                         direction |-> direction]
    /\ lastMerge' = NoCall
    /\ lastRequest' = NoRequest
    /\ UNCHANGED <<backend, error, success, mainStore, replicaStore,
                   comparisons, selectedComparison, dialogOpen,
                   showDecodedContent, currentTab, selectedLines>>

\* Cancel, or the closing of the confirmation dialog
cancelConfirm ==
    /\ confirmDialog.open
    /\ confirmDialog' = NoConfirm
    /\ lastMerge' = NoCall
    /\ lastRequest' = NoRequest
    /\ UNCHANGED <<backend, error, success, mainStore, replicaStore,
                   comparisons, selectedComparison, dialogOpen,
                   showDecodedContent, currentTab, selectedLines>>

\* a variant that sends the resource of the other cluster
confirmApplyChangesOther(accepted) ==
    /\ confirmDialog.open
    /\ LET resource == confirmDialog.resource
           direction == confirmDialog.direction
       IN IF resource # Null /\ direction # None
          THEN onApplyChanges(resource.name, resource.type, direction,
                              IF direction = "main-to-replica"
                              THEN resource.replicaResource
                              ELSE resource.mainResource, accepted)
          ELSE UNCHANGED <<error, success, lastRequest, mainStore,
                           replicaStore, comparisons>>
    /\ confirmDialog' = NoConfirm
    /\ lastMerge' = NoCall
    /\ UNCHANGED <<backend, selectedComparison, dialogOpen, showDecodedContent,
                   currentTab, selectedLines>>

\* Apply Changes in the confirmation dialog; `accepted` is whether the
\* target cluster takes the call
confirmApplyChanges(accepted) ==
    /\ confirmDialog.open
    /\ LET resource == confirmDialog.resource
           direction == confirmDialog.direction
       IN IF resource # Null /\ direction # None
          THEN onApplyChanges(resource.name, resource.type, direction,
                              IF direction = "main-to-replica"
                              THEN resource.mainResource
                              ELSE resource.replicaResource, accepted)
          ELSE UNCHANGED <<error, success, lastRequest, mainStore,
                           replicaStore, comparisons>>
    /\ confirmDialog' = NoConfirm
    /\ lastMerge' = NoCall
    /\ UNCHANGED <<backend, selectedComparison, dialogOpen, showDecodedContent,
                   currentTab, selectedLines>>

\* View Diff is shown on the card of a different resource that has a diff
handleViewDiff(comparison) ==
    /\ ~dialogOpen
    /\ ~confirmDialog.open
    /\ comparison \in AllResources(comparisons)
    /\ comparison.status = "different"
    /\ comparison.diff # Null
    /\ selectedComparison' = comparison
    /\ showDecodedContent' = FALSE
    /\ currentTab' = 0
    /\ dialogOpen' = TRUE
    /\ lastMerge' = NoCall
    /\ lastRequest' = NoRequest
    /\ UNCHANGED <<backend, confirmDialog, error, success, mainStore, replicaStore,
                   comparisons, selectedLines>>

handleTabChange(newValue) ==
    /\ dialogOpen
    /\ currentTab' = newValue
    /\ lastMerge' = NoCall
    /\ lastRequest' = NoRequest
    /\ UNCHANGED <<backend, confirmDialog, error, success, mainStore, replicaStore,
                   comparisons, selectedComparison,
                   dialogOpen, showDecodedContent, selectedLines>>

closeDialog ==
    /\ dialogOpen
    /\ dialogOpen' = FALSE
    /\ lastMerge' = NoCall
    /\ lastRequest' = NoRequest
    /\ UNCHANGED <<backend, confirmDialog, error, success, mainStore, replicaStore,
                   comparisons, selectedComparison,
                   showDecodedContent, currentTab, selectedLines>>

\* the Decode Base64 switch is shown for an opaque Secret
setShowDecodedContent(checked) ==
    /\ dialogOpen
    /\ selectedComparison # Null
    /\ isOpaqueSecret(selectedComparison)
    /\ showDecodedContent' = checked
    /\ lastMerge' = NoCall
    /\ lastRequest' = NoRequest
    /\ UNCHANGED <<backend, confirmDialog, error, success, mainStore, replicaStore,
                   comparisons, selectedComparison,
                   dialogOpen, currentTab, selectedLines>>

\* a variant that takes a click on any line of the mapping
clickLineAnyType(lines, comparison, key, diff, lineId) ==
    LET lineData == MappingGet(lineMapping(diff), lineId)
    IN IF lineData = Null THEN lines
       ELSE LET selectedLine == SelectedLine(comparison.name, comparison.type,
                                             comparison.namespace, key,
                                             lineId, lineData)
                isAlreadySelected == isLineSelected(lines, selectedLine.id)
            IN handleLineSelection(lines, selectedLine, ~isAlreadySelected)

\* the selection after handleLineClick(lineId) on a diff rendered for
\* `comparison` under `key`
clickLine(lines, comparison, key, diff, lineId) ==
    LET lineData == MappingGet(lineMapping(diff), lineId)
    IN IF lineData = Null THEN lines
       ELSE IF lineData.type = "context" THEN lines
       ELSE LET selectedLine == SelectedLine(comparison.name, comparison.type,
                                             comparison.namespace, key,
                                             lineId, lineData)
                isAlreadySelected == isLineSelected(lines, selectedLine.id)
            IN handleLineSelection(lines, selectedLine, ~isAlreadySelected)

LineIds(diff) ==
    {LineId(side, num) : side \in {"L", "R"},
                         num \in 1..Len(lineMapping(diff))}

handleLineClick(shown, lineId) ==
    /\ dialogOpen
    /\ currentTab = 0
    /\ selectedComparison # Null
    /\ shown \in SeqToSet(renderDiffContent(selectedComparison,
                                            showDecodedContent))
    /\ lineId \in LineIds(shown.diff)
    /\ LET lines == clickLine(selectedLines, selectedComparison, shown.key,
                              shown.diff, lineId)
       IN /\ Len(lines) <= MaxSel
          /\ selectedLines' = lines
    /\ lastMerge' = NoCall
    /\ lastRequest' = NoRequest
    /\ UNCHANGED <<backend, confirmDialog, error, success, mainStore, replicaStore,
                   comparisons, selectedComparison,
                   dialogOpen, showDecodedContent, currentTab>>

\* Clear All Selections, on the Selected Changes tab
clearAllSelections ==
    /\ dialogOpen
    /\ currentTab = 1
    /\ Len(selectedLines) > 0
    /\ selectedLines' = <<>>
    /\ lastMerge' = NoCall
    /\ lastRequest' = NoRequest
    /\ UNCHANGED <<backend, confirmDialog, error, success, mainStore, replicaStore,
                   comparisons, selectedComparison,
                   dialogOpen, showDecodedContent, currentTab>>

\* a variant that hands the merged resource to onApplyChanges
applySelectedChangesSending(direction) ==
    /\ lastMerge' = IF selectedComparison = Null THEN NoCall
                    ELSE [called |-> TRUE, direction |-> direction,
                          result |-> mergeSelectedChanges(direction)]
    /\ IF selectedComparison # Null
          /\ mergeSelectedChanges(direction).kind = "resource"
       THEN \E accepted \in BOOLEAN :
                onApplyChanges(selectedComparison.name,
                               selectedComparison.type, direction,
                               mergeSelectedChanges(direction).value,
                               accepted)
       ELSE /\ lastRequest' = NoRequest
            /\ UNCHANGED <<error, success, mainStore, replicaStore,
                           comparisons>>
    /\ UNCHANGED <<backend, confirmDialog, selectedComparison, dialogOpen,
                   showDecodedContent, currentTab, selectedLines>>

\* handleApplySelectedChanges: the merge is computed and dropped, the call
\* of onApplyChanges and the clearing of the selection are commented out
applySelectedChanges(direction) ==
    /\ lastMerge' = IF selectedComparison = Null THEN NoCall
                    ELSE [called |-> TRUE, direction |-> direction,
                          result |-> mergeSelectedChanges(direction)]
    /\ lastRequest' = NoRequest
    /\ UNCHANGED <<backend, confirmDialog, error, success, mainStore, replicaStore,
                   comparisons, selectedComparison,
                   dialogOpen, showDecodedContent, currentTab, selectedLines>>

\* the Apply buttons of the Selected Changes tab
handleApplySelectedChanges(direction) ==
    /\ dialogOpen
    /\ currentTab = 1
    /\ Len(selectedLines) > 0
    /\ selectedComparison # Null
    /\ IF direction = "main-to-replica" THEN selectedComparison.mainExists
       ELSE selectedComparison.replicaExists
    /\ applySelectedChanges(direction)

----------------------------------------------------------------------------
(* Backend: the cluster configurations and the routes that use them *)

\* the contents of a file that KubeConfig.loadFromString takes; it throws
\* on any other
ValidConfigs == {"kubeconfig-a", "kubeconfig-b"}

\* createKubernetesClient: the ClusterConfig, or the exception of
\* loadFromString
createKubernetesClient(configContent, clusterName) ==
    IF configContent \in ValidConfigs
    THEN [thrown |-> FALSE,
          value |-> [name |-> clusterName, kubeConfig |-> configContent]]
    ELSE [thrown |-> TRUE, value |-> Null]

\* the answer to a request and the calls it made on the clusters
Response(endpoint, status, calls, err) ==
    [endpoint |-> endpoint, status |-> status, calls |-> calls, error |-> err]

\* a variant that lets a request through when either cluster is set
eitherClusterSet(main, replica) == main # Null \/ replica # Null

\* the negation of (!mainCluster || !replicaCluster)
bothClustersSet(main, replica) == main # Null /\ replica # Null

\* cluster.api.op(...), to be evaluated on the cluster held by a slot
Attempt(slot, cluster, op) == [slot |-> slot, cluster |-> cluster, op |-> op]

\* reading .api of null throws a TypeError
Throws(attempts) == \E i \in 1..Len(attempts) : attempts[i].slot = Null

\* the calls made by evaluating the attempts in order, up to the first
\* that throws
RECURSIVE callsIssued(_)
callsIssued(attempts) ==
    IF attempts = <<>> \/ Head(attempts).slot = Null THEN <<>>
    ELSE <<[cluster |-> Head(attempts).cluster, op |-> Head(attempts).op]>>
             \o callsIssued(Tail(attempts))

\* both cluster configurations uploaded, no request answered yet
Configured ==
    /\ mainCluster = createKubernetesClient("kubeconfig-a", "main").value
    /\ replicaCluster =
           createKubernetesClient("kubeconfig-b", "replica").value
    /\ lastResponse = Response("none", 0, <<>>, None)

Directions == {"main-to-replica", "replica-to-main"}

Init ==
    /\ \E w \in AllWorlds : mainStore = w.main /\ replicaStore = w.replica
    /\ comparisons = <<>>
    /\ selectedComparison = Null
    /\ dialogOpen = FALSE
    /\ showDecodedContent = FALSE
    /\ currentTab = 0
    /\ selectedLines = <<>>
    /\ lastMerge = NoCall
    /\ confirmDialog = NoConfirm
    /\ error = None
    /\ success = None
    /\ lastRequest = NoRequest
    /\ Configured

Next ==
    \/ handleCompareResources
    \/ \E c \in AllResources(comparisons) : handleViewDiff(c)
    \/ \E t \in {0, 1} : handleTabChange(t)
    \/ closeDialog
    \/ \E b \in BOOLEAN : setShowDecodedContent(b)
    \/ \E shown \in SeqToSet(IF selectedComparison = Null THEN <<>>
                               ELSE renderDiffContent(selectedComparison,
                                                      showDecodedContent)) :
           \E lineId \in LineIds(shown.diff) : handleLineClick(shown, lineId)
    \/ clearAllSelections
    \/ \E d \in Directions : handleApplySelectedChanges(d)
    \/ \E c \in AllResources(comparisons), d \in Directions :
           handleApplyChanges(c, d)
    \/ cancelConfirm
    \/ \E accepted \in BOOLEAN : confirmApplyChanges(accepted)

Spec == Init /\ [][Next]_vars

----------------------------------------------------------------------------
(* compareResources on drawn lists: the lists of one namespace hold at     *)
(* most MaxItems resources of distinct names, each object at most MaxKeys  *)
(* properties of distinct keys.  The main cluster's objects list their     *)
(* keys in any order, the replica's in the order of KeyNames with the      *)
(* first of CompareValues as every value.                                  *)

KeyNames == <<"a", "b", "c", "d">>
CompareKeys == {KeyNames[i] : i \in 1..MaxKeys}
CompareValues == {"1", "2"}
CompareNames == {"app", "db"}

\* the sequences of at most n elements of S
SeqsUpTo(S, n) == UNION {[1..m -> S] : m \in 0..n}

Distinct(s) == \A i, j \in 1..Len(s) : i # j => s[i] # s[j]

\* no data, or an object of distinct keys; only key "a" takes both values
DrawnData ==
    {NoData} \cup
    {Obj(e) : e \in {x \in SeqsUpTo(CompareKeys \X CompareValues, MaxKeys) :
                         /\ Distinct(ObjectKeys(x))
                         /\ \A i \in 1..Len(x) :
                                x[i][1] # "a" => x[i][2] = "1"}}

\* the place of a key in KeyNames
KeyIndex(k) == CHOOSE i \in 1..Len(KeyNames) : KeyNames[i] = k

SortedData ==
    {d \in DrawnData :
        /\ \A i \in 1..Len(d.entries) : d.entries[i][2] = "1"
        /\ \A i, j \in 1..Len(d.entries) :
               i < j => KeyIndex(d.entries[i][1]) < KeyIndex(d.entries[j][1])}

DrawnLists(type, datas) ==
    {l \in SeqsUpTo({Resource(n, type, d) : n \in CompareNames,
                                            d \in datas}, MaxItems) :
        Distinct([i \in 1..Len(l) |-> l[i].name])}

InitCompare ==
    /\ \E ms \in DrawnLists("Opaque", DrawnData) :
           \E rs \in DrawnLists("Opaque", SortedData) :
               /\ mainStore =
                      Store(ms, <<Resource("app", Undefined, NoData),
                                  Resource("web", Undefined,
                                           Obj(<< <<"a", "1">> >>))>>)
               /\ replicaStore =
                      Store(rs, <<Resource("db", Undefined,
                                           Obj(<< <<"a", "1">> >>)),
                                  Resource("app", Undefined, Obj(<<>>))>>)
    /\ comparisons = <<>>
    /\ selectedComparison = Null
    /\ dialogOpen = FALSE
    /\ showDecodedContent = FALSE
    /\ currentTab = 0
    /\ selectedLines = <<>>
    /\ lastMerge = NoCall
    /\ confirmDialog = NoConfirm
    /\ error = None
    /\ success = None
    /\ lastRequest = NoRequest
    /\ Configured

NextCompare == handleCompareResources

SpecCompare == InitCompare /\ [][NextCompare]_vars

----------------------------------------------------------------------------
(* mergeSelectedChanges on drawn arguments: any comparison of a response,  *)
(* a missing one included, and any list of at most MaxMergeLines lines     *)
(* that a click on one of the response's diffs produces                    *)

\* the lines a click can select on the diffs of a response
ClickableLines(cs) ==
    UNION { UNION { UNION {
        SeqToSet(clickLine(<<>>, c, shown.key, shown.diff, lineId))
            : lineId \in LineIds(shown.diff) }
            : shown \in SeqToSet(renderDiffContent(c, decode)) }
            : c \in {x \in AllResources(cs) : x.status = "different"},
              decode \in BOOLEAN }

InitMerge ==
    /\ \E w \in AllWorlds :
           /\ mainStore = w.main
           /\ replicaStore = w.replica
           /\ comparisons = <<compareNamespace(w.main, w.replica, Namespace)>>
    /\ selectedComparison \in AllResources(comparisons) \cup {Null}
    /\ selectedLines \in
           {l \in SeqsUpTo(ClickableLines(comparisons), MaxMergeLines) :
               Distinct([i \in 1..Len(l) |-> l[i].id])}
    /\ dialogOpen = TRUE
    /\ showDecodedContent = FALSE
    /\ currentTab = 1
    /\ lastMerge = NoCall
    /\ confirmDialog = NoConfirm
    /\ error = None
    /\ success = None
    /\ lastRequest = NoRequest
    /\ Configured

NextMerge == \E d \in Directions : applySelectedChanges(d)

SpecMerge == InitMerge /\ [][NextMerge]_vars

----------------------------------------------------------------------------
(* The backend on its own: requests in any order, from no configuration *)

\* the state of the page, which no request to the backend touches
page == <<comparisons, selectedComparison, dialogOpen, showDecodedContent,
          currentTab, selectedLines, lastMerge, confirmDialog, error,
          success, lastRequest>>

\* POST /api/upload-config; `files` is req.files, null when the request
\* is not multipart
uploadConfig(files) ==
    LET mainClient ==
            createKubernetesClient(files.mainConfig, "main")
        replicaClient ==
            createKubernetesClient(files.replicaConfig, "replica")
        failed(status) ==
            lastResponse' = Response("upload-config", status, <<>>,
                                     "Failed to upload configuration files")
    IN /\ IF files = Null
          THEN /\ failed(500)
               /\ UNCHANGED <<mainCluster, replicaCluster>>
          ELSE IF files.mainConfig # Undefined /\ mainClient.thrown
          THEN /\ failed(500)
               /\ UNCHANGED <<mainCluster, replicaCluster>>
          ELSE /\ mainCluster' = IF files.mainConfig # Undefined
                                 THEN mainClient.value ELSE mainCluster
               /\ IF files.replicaConfig # Undefined /\ replicaClient.thrown
                  THEN /\ failed(500)
                       /\ UNCHANGED replicaCluster
                  ELSE /\ replicaCluster' =
                              IF files.replicaConfig # Undefined
                              THEN replicaClient.value ELSE replicaCluster
                       /\ lastResponse' = Response("upload-config", 200,
                                                   <<>>, None)
       /\ UNCHANGED <<page, mainStore, replicaStore>>

\* GET /api/namespaces; `accepted` is whether the clusters answer
getNamespaces(accepted) ==
    /\ lastResponse' =
           IF ~bothClustersSet(mainCluster, replicaCluster)
           THEN Response("namespaces", 400, <<>>,
                         "Both cluster configurations must be uploaded first")
           ELSE LET attempts ==
                        <<Attempt(mainCluster, "main", "listNamespace"),
                          Attempt(replicaCluster, "replica", "listNamespace")>>
                IN IF Throws(attempts) \/ ~accepted
                   THEN Response("namespaces", 500, callsIssued(attempts),
                                 "Failed to fetch namespaces")
                   ELSE Response("namespaces", 200, callsIssued(attempts),
                                 None)
    /\ UNCHANGED <<page, mainStore, replicaStore, mainCluster,
                   replicaCluster>>

\* POST /api/compare-resources; a cluster that does not answer fails the
\* first Promise.all
postCompareResources(namespaces, accepted) ==
    /\ lastResponse' =
           IF ~bothClustersSet(mainCluster, replicaCluster)
           THEN Response("compare-resources", 400, <<>>,
                         "Both cluster configurations must be uploaded first")
           ELSE IF namespaces = Undefined
           THEN Response("compare-resources", 400, <<>>,
                         "Namespaces array is required")
           ELSE IF namespaces = <<>>
           THEN Response("compare-resources", 200, <<>>, None)
           ELSE LET attempts ==
                        <<Attempt(mainCluster, "main",
                                  "listNamespacedSecret"),
                          Attempt(replicaCluster, "replica",
                                  "listNamespacedSecret"),
                          Attempt(mainCluster, "main",
                                  "listNamespacedConfigMap"),
                          Attempt(replicaCluster, "replica",
                                  "listNamespacedConfigMap")>>
                IN IF Throws(attempts)
                   THEN Response("compare-resources", 500,
                                 callsIssued(attempts),
                                 "Failed to compare resources")
                   ELSE IF ~accepted
                   THEN Response("compare-resources", 500,
                                 callsIssued(SubSeq(attempts, 1, 2)),
                                 "Failed to compare resources")
                   ELSE Response("compare-resources", 200,
                                 callsIssued(attempts), None)
    /\ UNCHANGED <<page, mainStore, replicaStore, mainCluster,
                   replicaCluster>>

\* POST /api/apply-changes
postApplyChanges(resourceType, direction, resourceData, accepted) ==
    /\ IF ~bothClustersSet(mainCluster, replicaCluster)
       THEN /\ lastResponse' =
                   Response("apply-changes", 400, <<>>,
                            "Both cluster configurations must be uploaded first")
            /\ UNCHANGED <<mainStore, replicaStore>>
       ELSE LET targetCluster ==
                    IF direction = "main-to-replica" THEN replicaCluster
                    ELSE mainCluster
                target == IF direction = "main-to-replica" THEN "replica"
                          ELSE "main"
                attempts ==
                    IF resourceType = "Secret"
                    THEN <<Attempt(targetCluster, target,
                                   "createNamespacedSecret")>>
                    ELSE IF resourceType = "ConfigMap"
                    THEN <<Attempt(targetCluster, target,
                                   "createNamespacedConfigMap")>>
                    ELSE <<>>
                r == applyChangesEndpoint(mainStore, replicaStore,
                                          resourceType, direction,
                                          resourceData, accepted)
            IN IF Throws(attempts)
               THEN /\ lastResponse' = Response("apply-changes", 500,
                                                callsIssued(attempts),
                                                FailedToApply)
                    /\ UNCHANGED <<mainStore, replicaStore>>
               ELSE /\ lastResponse' =
                           Response("apply-changes",
                                    IF r.ok THEN 200 ELSE 500,
                                    callsIssued(attempts),
                                    IF r.ok THEN None ELSE FailedToApply)
                    /\ mainStore' = r.main
                    /\ replicaStore' = r.replica
    /\ UNCHANGED <<page, mainCluster, replicaCluster>>

InitBackend ==
    /\ \E w \in AllWorlds : mainStore = w.main /\ replicaStore = w.replica
    /\ comparisons = <<>>
    /\ selectedComparison = Null
    /\ dialogOpen = FALSE
    /\ showDecodedContent = FALSE
    /\ currentTab = 0
    /\ selectedLines = <<>>
    /\ lastMerge = NoCall
    /\ confirmDialog = NoConfirm
    /\ error = None
    /\ success = None
    /\ lastRequest = NoRequest
    /\ mainCluster = Null
    /\ replicaCluster = Null
    /\ lastResponse = Response("none", 0, <<>>, None)

\* the requests: an upload that is not multipart; an upload of a main
\* and a replica file, each present or not, each taken by loadFromString
\* or not; the reads; an apply of a resource that the source cluster holds
NextBackend ==
    \/ uploadConfig(Null)
    \/ \E m, r \in ValidConfigs \cup {"not-a-kubeconfig", Undefined} :
           uploadConfig([mainConfig |-> m, replicaConfig |-> r])
    \/ \E accepted \in BOOLEAN : getNamespaces(accepted)
    \/ \E namespaces \in {Undefined, <<>>, <<Namespace>>},
          accepted \in BOOLEAN :
           postCompareResources(namespaces, accepted)
    \/ \E resourceType \in {"Secret", "ConfigMap"}, direction \in Directions,
          accepted \in BOOLEAN :
           LET store == IF direction = "main-to-replica" THEN mainStore
                        ELSE replicaStore
           IN \E resourceData \in
                     SeqToSet(IF resourceType = "Secret" THEN store.secrets
                              ELSE store.configMaps) :
                  postApplyChanges(resourceType, direction, resourceData,
                                   accepted)

SpecBackend == InitBackend /\ [][NextBackend]_vars

----------------------------------------------------------------------------
(* Claims on compareResources, checked under SpecCompare *)

ListOf(store, type) ==
    IF type = "Secret" THEN store.secrets ELSE store.configMaps

MainOf(c) == MapGet(ListOf(mainStore, c.type), c.name)
ReplicaOf(c) == MapGet(ListOf(replicaStore, c.type), c.name)

Canonical(data) ==
    JSONStringify(IF data.defined THEN data.entries ELSE <<>>)

\* C1: a resource found on both sides is reported identical exactly when
\* the serializations of the two data maps are equal, a missing data map
\* serialized as the empty one, and different otherwise
C1_Theorem ==
    \A c \in AllResources(comparisons) :
        (MainOf(c) # Null /\ ReplicaOf(c) # Null) =>
            /\ c.status = "identical"
                   <=> Canonical(MainOf(c).data) = Canonical(ReplicaOf(c).data)
            /\ c.status # "identical" => c.status = "different"

C1_Witness ==
    \E c, d \in AllResources(comparisons) :
        /\ MainOf(c) # Null /\ ReplicaOf(c) # Null
        /\ ~MainOf(c).data.defined /\ ReplicaOf(c).data.defined
        /\ c.status = "identical"
        /\ MainOf(d) # Null /\ ReplicaOf(d) # Null
        /\ d.status = "different"

\* C2: two resources whose data maps hold the same key/value pairs in
\* different orders serialize to the same text and are reported identical,
\* with no patch
C2_Claim ==
    \A c \in AllResources(comparisons) :
        (/\ MainOf(c) # Null /\ ReplicaOf(c) # Null
         /\ AsMap(OrEmpty(MainOf(c).data)) = AsMap(OrEmpty(ReplicaOf(c).data))
         /\ OrEmpty(MainOf(c).data) # OrEmpty(ReplicaOf(c).data))
        => /\ Canonical(MainOf(c).data) = Canonical(ReplicaOf(c).data)
           /\ c.status = "identical"
           /\ c.diff = Null

NamesOf(resources) == {resources[i].name : i \in 1..Len(resources)}

\* C3: every name returned by a side has an entry, whose status is
\* main-only exactly when only the main list has the name and replica-only
\* exactly when only the replica list has it
C3_Theorem ==
    comparisons # <<>> =>
        \A type \in {"Secret", "ConfigMap"} :
            LET inMain == NamesOf(ListOf(mainStore, type))
                inReplica == NamesOf(ListOf(replicaStore, type))
            IN \A name \in inMain \cup inReplica :
                   \E c \in AllResources(comparisons) :
                       /\ c.name = name /\ c.type = type
                       /\ c.status = "main-only"
                              <=> (name \in inMain /\ name \notin inReplica)
                       /\ c.status = "replica-only"
                              <=> (name \notin inMain /\ name \in inReplica)

C3_Witness ==
    \E c, d \in AllResources(comparisons) :
        /\ c.status = "main-only" /\ ReplicaOf(c) = Null
        /\ d.status = "replica-only" /\ MainOf(d) = Null

----------------------------------------------------------------------------
(* Claims on mergeSelectedChanges as a function, checked under SpecMerge *)

\* C4: with a non-empty selection and no destination for the direction,
\* mergeSelectedChanges returns null
C4_Claim ==
    (/\ lastMerge.called
     /\ Len(selectedLines) > 0
     /\ destinationOf(selectedComparison, lastMerge.direction) = Null)
    => lastMerge.result.kind = "null"

\* C5: with an empty selection mergeSelectedChanges returns null for either
\* direction, and the call leaves the selection, the active comparison, the
\* comparisons and both clusters as they were
C5_Theorem ==
    [][(/\ lastMerge'.called
        /\ lastMerge' # lastMerge
        /\ Len(selectedLines) = 0)
       => /\ lastMerge'.result = Returned(Null)
          /\ UNCHANGED <<selectedLines, selectedComparison, comparisons,
                         mainStore, replicaStore>>]_vars

C5_Witness ==
    /\ lastMerge.called
    /\ Len(selectedLines) = 0
    /\ selectedComparison # Null
    /\ destinationOf(selectedComparison, lastMerge.direction) # Null

----------------------------------------------------------------------------
(* Claims on the merge made from the component, checked under Spec *)

BelongsTo(line, comparison) ==
    /\ line.resourceName = comparison.name
    /\ line.resourceType = comparison.type
    /\ line.namespace = comparison.namespace

OwnLines(lines, comparison) ==
    LET own(l) == BelongsTo(l, comparison) IN SelectSeq(lines, own)

SourceData == OrEmpty(DataOf(sourceOf(selectedComparison, lastMerge.direction)))
DestinationData ==
    OrEmpty(DataOf(destinationOf(selectedComparison, lastMerge.direction)))
MergedData == OrEmpty(DataOf(lastMerge.result.value))

KeySet(entries) == SeqToSet(ObjectKeys(entries))

\* C6: a selection without a line of the active resource gives null, and
\* the lines of other resources have no effect on the merged snapshot
C6_Claim ==
    lastMerge.called =>
        IF OwnLines(selectedLines, selectedComparison) = <<>>
        THEN lastMerge.result.kind = "null"
        ELSE lastMerge.result =
                 mergeLines(lastMerge.direction,
                            OwnLines(selectedLines, selectedComparison),
                            selectedComparison)

\* C7: for a ConfigMap whose destination exists, a key with a selected
\* line has in the merged data map the whole value of the source side
C7_Claim ==
    (/\ lastMerge.called
     /\ selectedComparison.type = "ConfigMap"
     /\ destinationOf(selectedComparison, lastMerge.direction) # Null)
    => \A i \in 1..Len(selectedLines) :
           (/\ BelongsTo(selectedLines[i], selectedComparison)
            /\ ~Falsy(selectedLines[i].key))
           => /\ lastMerge.result.kind = "resource"
              /\ Get(MergedData, selectedLines[i].key)
                     = OrBlank(Get(SourceData, selectedLines[i].key))

\* the keys the pattern recovers from the selected lines of resources
\* that are not ConfigMaps
RecoveredKeys(lines) ==
    {matchKey(lines[i].lineContent) :
        i \in {j \in 1..Len(lines) : lines[j].resourceType # "ConfigMap"}}
    \ {Undefined}

\* C8: when a selected line of a resource that is not a ConfigMap matches
\* the pattern, every recovered key the source has takes the source's value
\* and every other key of the destination keeps its value
C8_Claim ==
    (/\ lastMerge.called
     /\ selectedComparison.type # "ConfigMap"
     /\ RecoveredKeys(selectedLines) # {})
    => /\ lastMerge.result.kind = "resource"
       /\ \A k \in RecoveredKeys(selectedLines) \cap KeySet(SourceData) :
              Get(MergedData, k) = Get(SourceData, k)
       /\ \A k \in KeySet(DestinationData) \ RecoveredKeys(selectedLines) :
              Get(MergedData, k) = Get(DestinationData, k)

\* every selected line is of a resource that is not a ConfigMap and none
\* matches the pattern
NoKeyRecovered(lines) ==
    /\ Len(lines) > 0
    /\ \A i \in 1..Len(lines) :
           /\ lines[i].resourceType # "ConfigMap"
           /\ matchKey(lines[i].lineContent) = Undefined

LineAt(comparison, decode, line) ==
    LET diff == createDecodedDiff(comparison, decode)
    IN IF diff = Null THEN <<>>
       ELSE clickLine(<<>>, comparison, Undefined, diff,
                      LineId(IF line.side = "left" THEN "L" ELSE "R",
                             line.lineNumber))

RECURSIVE LinesAt(_, _, _)
LinesAt(comparison, decode, lines) ==
    IF lines = <<>> THEN <<>>
    ELSE LineAt(comparison, decode, Head(lines))
         \o LinesAt(comparison, decode, Tail(lines))

ValueSet(entries) == {entries[i][2] : i \in 1..Len(entries)}

\* C10: for an opaque Secret, the lines selected at some positions of the
\* decoded diff give the same merged snapshot as the lines selected at the
\* same positions of the raw diff, and every value of the merged snapshot
\* is a value of the source or of the destination
C10_Claim ==
    (/\ lastMerge.called
     /\ isOpaqueSecret(selectedComparison)
     /\ selectedLines = LinesAt(selectedComparison, TRUE, selectedLines)
     /\ Len(LinesAt(selectedComparison, FALSE, selectedLines))
            = Len(selectedLines))
    => /\ lastMerge.result =
              mergeLines(lastMerge.direction,
                         LinesAt(selectedComparison, FALSE, selectedLines),
                         selectedComparison)
       /\ lastMerge.result.kind = "resource"
              => ValueSet(MergedData)
                     \subseteq ValueSet(SourceData) \cup ValueSet(DestinationData)

----------------------------------------------------------------------------
(* Claims on the selection, the diffs and the apply, checked under Spec *)

\* a comparison has completed: Compare Resources, or the refresh that
\* follows a successful apply
FreshComparison ==
    \/ handleCompareResources
    \/ lastRequest'.sent /\ error' = None

\* C11: the selection is empty right after every fresh comparison and
\* after every successful apply; no line selected before is still selected
C11_Claim == [][FreshComparison => selectedLines' = <<>>]_vars

\* C12: lines of diffs that differ in resourceName, resourceType,
\* namespace or key have different ids, so a click on a line of the diff
\* on display leaves every selected line of another resource selected
C12_Claim ==
    [][(dialogOpen /\ currentTab = 0)
       => \A i \in 1..Len(selectedLines) :
              ~BelongsTo(selectedLines[i], selectedComparison)
              => isLineSelected(selectedLines', selectedLines[i].id)]_vars

\* the diffs on display in the diff viewer
ShownDiffs ==
    IF dialogOpen /\ selectedComparison # Null
    THEN SeqToSet(renderDiffContent(selectedComparison, showDecodedContent))
    ELSE {}

\* the entry of the line mapping a click on lineId finds
LineData(shown, lineId) == MappingGet(lineMapping(shown.diff), lineId)

\* C13: no selected line is a context line, and a click on a context line
\* or on an id that the line mapping does not hold leaves the selection as
\* it is
C13_Theorem ==
    /\ \A i \in 1..Len(selectedLines) : selectedLines[i].lineType # "context"
    /\ \A shown \in ShownDiffs :
           \A lineId \in LineIds(shown.diff) :
               (\/ LineData(shown, lineId) = Null
                \/ LineData(shown, lineId).type = "context")
               => clickLine(selectedLines, selectedComparison, shown.key,
                            shown.diff, lineId) = selectedLines

\* a diff with a context line and with an id outside the mapping is on
\* display while a line is selected
C13_Witness ==
    /\ currentTab = 0
    /\ Len(selectedLines) > 0
    /\ \E shown \in ShownDiffs :
           /\ \E lineId \in LineIds(shown.diff) :
                  LineData(shown, lineId) = Null
           /\ \E lineId \in LineIds(shown.diff) :
                  /\ LineData(shown, lineId) # Null
                  /\ LineData(shown, lineId).type = "context"

\* the SelectionSet: the ids of the selected lines
Ids(lines) == {lines[i].id : i \in 1..Len(lines)}

\* the ids a click on a deletion or addition line of a displayed diff
\* carries, each with the diff it is clicked on
Selectable ==
    {p \in UNION {{<<shown, lineId>> : lineId \in LineIds(shown.diff)}
                     : shown \in ShownDiffs} :
        /\ LineData(p[1], p[2]) # Null
        /\ LineData(p[1], p[2]).type \in {"addition", "deletion"}}

\* the id under which a click on p is recorded
IdOf(p) ==
    SelectedLine(selectedComparison.name, selectedComparison.type,
                 selectedComparison.namespace, p[1].key, p[2],
                 LineData(p[1], p[2])).id

\* the selection after a click on p
Clicked(lines, p) ==
    clickLine(lines, selectedComparison, p[1].key, p[1].diff, p[2])

\* C14: a click on an addition or deletion line flips the membership of
\* that line's id in the selection and of no other id, and a second click
\* on the same line restores the selection; the selection holds no id
\* twice
C14_Theorem ==
    /\ Distinct([i \in 1..Len(selectedLines) |-> selectedLines[i].id])
    /\ \A p \in Selectable :
           /\ Ids(Clicked(selectedLines, p))
                  = IF IdOf(p) \in Ids(selectedLines)
                    THEN Ids(selectedLines) \ {IdOf(p)}
                    ELSE Ids(selectedLines) \cup {IdOf(p)}
           /\ Ids(Clicked(Clicked(selectedLines, p), p)) = Ids(selectedLines)

\* a diff is on display with a selected line and an unselected one, the
\* selected one not the last that was clicked
C14_Witness ==
    /\ currentTab = 0
    /\ Len(selectedLines) > 1
    /\ \E p \in Selectable : IdOf(p) = selectedLines[1].id
    /\ \E p \in Selectable : IdOf(p) \notin Ids(selectedLines)

\* the two texts the patch of a displayed diff was made from
PatchInputs(shown) ==
    IF selectedComparison.type = "ConfigMap"
    THEN LET mainData == OrEmpty(DataOf(selectedComparison.mainResource))
             replicaData == OrEmpty(DataOf(selectedComparison.replicaResource))
         IN Pair(TextLines(OrBlank(Get(mainData, shown.key))),
                 TextLines(OrBlank(Get(replicaData, shown.key))))
    ELSE LET gate == showDecodedContent /\ isOpaqueSecret(selectedComparison)
             mainData == DataOf(selectedComparison.mainResource)
             replicaData == DataOf(selectedComparison.replicaResource)
         IN Pair(JSONStringify(OrEmpty(IF gate THEN decodeBase64Data(mainData)
                                       ELSE mainData)),
                 JSONStringify(OrEmpty(IF gate
                                       THEN decodeBase64Data(replicaData)
                                       ELSE replicaData)))

\* the lines of one side of the line mapping, in the order of their
\* numbers; n is the number the next line must carry
RECURSIVE SideLines(_, _, _)
SideLines(mapping, side, n) ==
    IF MappingGet(mapping, LineId(side, n)) = Null THEN <<>>
    ELSE <<MappingGet(mapping, LineId(side, n)).content>>
         \o SideLines(mapping, side, n + 1)

\* a text whatever the newline at the end of its lines
Content(text) == [i \in 1..Len(text) |-> [text[i] EXCEPT !.eol = TRUE]]

\* C15: the left lines of the line mapping of a patch of A and B, taken
\* by their numbers 1, 2, ..., are the lines of A, and the right lines are
\* the lines of B
C15_Claim ==
    \A shown \in ShownDiffs :
        /\ Content(SideLines(lineMapping(shown.diff), "L", 1))
               = Content(PatchInputs(shown).main)
        /\ Content(SideLines(lineMapping(shown.diff), "R", 1))
               = Content(PatchInputs(shown).replica)

\* the keys of the patches of createConfigMapKeyDiffs, in their order
PatchKeys(comparison) ==
    [i \in 1..Len(createConfigMapKeyDiffs(comparison)) |->
        createConfigMapKeyDiffs(comparison)[i].key]

\* C16: createConfigMapKeyDiffs returns one patch for every key of either
\* side whose values differ, a key that one side lacks included, and no
\* patch for a key of equal values
C16_Claim ==
    \A c \in {x \in AllResources(comparisons) : x.type = "ConfigMap"} :
        LET mainData == OrEmpty(DataOf(c.mainResource))
            replicaData == OrEmpty(DataOf(c.replicaResource))
        IN /\ Distinct(PatchKeys(c))
           /\ SeqToSet(PatchKeys(c))
                  = {k \in KeySet(mainData) \cup KeySet(replicaData) :
                        Get(mainData, k) # Get(replicaData, k)}

\* the data maps of the Secrets of the comparisons
SecretData ==
    UNION {{DataOf(c.mainResource), DataOf(c.replicaResource)}
              : c \in {x \in AllResources(comparisons) : x.type = "Secret"}}

\* C17: decodeBase64Data returns, for every data map, the map of the same
\* keys where each value that is base64 is decoded and each other value is
\* kept as it is, and the decoded diff of an opaque Secret is made of
\* these maps
C17_Theorem ==
    /\ \A data \in SecretData :
           LET decoded == decodeBase64Data(data)
           IN IF ~data.defined THEN decoded = data
              ELSE /\ decoded.defined
                   /\ ObjectKeys(decoded.entries) = ObjectKeys(data.entries)
                   /\ \A i \in 1..Len(data.entries) :
                          decoded.entries[i][2]
                              = IF atob(data.entries[i][2]).ok
                                THEN atob(data.entries[i][2]).value
                                ELSE data.entries[i][2]
    /\ (dialogOpen /\ showDecodedContent /\ selectedComparison # Null)
       => \A shown \in ShownDiffs :
              shown.diff.text
                  = createPatch(selectedComparison.name,
                                PatchInputs(shown).main,
                                PatchInputs(shown).replica)

\* the decoded diff of a Secret is on display, one of its data maps with a
\* value that is not base64 after one that is and before another
C17_Witness ==
    /\ dialogOpen
    /\ showDecodedContent
    /\ ShownDiffs # {}
    /\ LET data == DataOf(selectedComparison.replicaResource).entries
       IN \E i, j, k \in 1..Len(data) :
              /\ i < j /\ j < k
              /\ atob(data[i][2]).ok
              /\ ~atob(data[j][2]).ok
              /\ atob(data[k][2]).ok
              /\ decodeBase64Data(Obj(data)).entries[k][2] # data[k][2]

\* C18: an apply of the selected changes whose merge returns a snapshot
\* hands that snapshot to onApplyChanges as resourceData
C18_Claim ==
    [][(lastMerge'.called /\ lastMerge'.result.kind = "resource")
       => /\ lastRequest'.sent
          /\ lastRequest'.resourceData = lastMerge'.result.value]_vars

\* the list of the cluster a request of that direction writes to
TargetList(main, replica, request) ==
    ListOf(IF request.direction = "main-to-replica" THEN replica ELSE main,
           request.resourceType)

\* every object of the list `old` is in the list `new`, as it was
Kept(old, new) ==
    /\ Len(new) >= Len(old)
    /\ \A i \in 1..Len(old) : new[i] = old[i]

\* C19: an apply request only creates: every object of either cluster is
\* left as it was, and a request for a resource that the target cluster
\* already has fails and leaves both clusters unchanged
C19_Theorem ==
    [][lastRequest'.sent
       => /\ Kept(mainStore.secrets, mainStore'.secrets)
          /\ Kept(mainStore.configMaps, mainStore'.configMaps)
          /\ Kept(replicaStore.secrets, replicaStore'.secrets)
          /\ Kept(replicaStore.configMaps, replicaStore'.configMaps)
          /\ MapGet(TargetList(mainStore, replicaStore, lastRequest'),
                    lastRequest'.resourceName) # Null
             => /\ error' = FailedToApply
                /\ mainStore' = mainStore
                /\ replicaStore' = replicaStore]_vars

\* a request for a resource that the target cluster has with other data
\* has failed
C19_Witness ==
    /\ lastRequest.sent
    /\ error = FailedToApply
    /\ MapGet(TargetList(mainStore, replicaStore, lastRequest),
              lastRequest.resourceName) # Null
    /\ MapGet(TargetList(mainStore, replicaStore, lastRequest),
              lastRequest.resourceName) # lastRequest.resourceData

\* C20: a call of onApplyChanges is made from the open confirmation
\* dialog, for the resource and the direction the dialog was opened with
\* on a card, and closes it; a step that closes the dialog without a call
\* leaves both clusters as they were
C20_Theorem ==
    [][/\ lastRequest'.sent
          => /\ confirmDialog.open
             /\ confirmDialog.resource \in AllResources(comparisons)
             /\ CardOffers(confirmDialog.resource, confirmDialog.direction)
             /\ lastRequest'.resourceName = confirmDialog.resource.name
             /\ lastRequest'.resourceType = confirmDialog.resource.type
             /\ lastRequest'.direction = confirmDialog.direction
             /\ ~confirmDialog'.open
       /\ ~lastRequest'.sent
          => /\ mainStore' = mainStore
             /\ replicaStore' = replicaStore]_vars

\* a confirmed request has been sent while lines are selected
C20_Witness ==
    /\ lastRequest.sent
    /\ ~confirmDialog.open
    /\ Len(selectedLines) > 0

----------------------------------------------------------------------------
(* Claims on the scenarios, the toggle, the line mapping, the merge and    *)
(* the direction of an apply, checked under Spec                           *)

\* the comparisons of the Secret "creds" that the main cluster has with
\* data {user: "QWxpY2U="} and the replica with data {}
CredsScenario ==
    {c \in AllResources(comparisons) :
        /\ c.name = "creds"
        /\ c.type = "Secret"
        /\ MainOf(c) # Null
        /\ MainOf(c).data = Obj(<< <<"user", "QWxpY2U=">> >>)
        /\ ReplicaOf(c) # Null
        /\ ReplicaOf(c).data = Obj(<<>>)}

\* C21: the comparison of "creds", main data {user: "QWxpY2U="} and
\* replica data {}, has the status of a resource of the replica only
C21_Claim == \A c \in CredsScenario : c.status = "replica-only"

\* C21 as amended: both resources exist, so the comparison has the status
\* different, with a patch
C21_Amended ==
    \A c \in CredsScenario :
        /\ c.status = "different"
        /\ c.mainExists
        /\ c.replicaExists
        /\ c.diff # Null

C21_Witness == CredsScenario # {}

\* the patch texts rendered for a comparison with the toggle as given
DiffTexts(comparison, decode) ==
    [i \in 1..Len(renderDiffContent(comparison, decode)) |->
        renderDiffContent(comparison, decode)[i].diff.text]

\* the patch of the serialized data maps, decoded or as they are
DataPatch(comparison, decode) ==
    LET data(resource) == IF decode THEN decodeBase64Data(DataOf(resource))
                          ELSE DataOf(resource)
    IN createPatch(comparison.name,
                   JSONStringify(OrEmpty(data(comparison.mainResource))),
                   JSONStringify(OrEmpty(data(comparison.replicaResource))))

\* the toggle is on only for an opaque Secret, and the diffs of the
\* resource of the diff viewer are those of the data as they are unless
\* the resource is an opaque Secret and the toggle is on
Gated ==
    /\ showDecodedContent
       => selectedComparison # Null /\ isOpaqueSecret(selectedComparison)
    /\ \A c \in {x \in {selectedComparison} :
                     x # Null /\ x.status = "different"} :
           /\ c.type = "Secret" => DiffTexts(c, FALSE) = <<DataPatch(c, FALSE)>>
           /\ (c.type = "ConfigMap"
               \/ ~(c.mainResource.type = "Opaque"
                    \/ c.replicaResource.type = "Opaque"))
              => DiffTexts(c, TRUE) = DiffTexts(c, FALSE)
           /\ \A text \in SeqToSet(DiffTexts(c, TRUE)) :
                  (c.type = "Secret" /\ text # DataPatch(c, FALSE))
                  => /\ c.mainResource.type = "Opaque"
                        \/ c.replicaResource.type = "Opaque"
                     /\ text = DataPatch(c, TRUE)

\* C22: decoded values reach the diff only for a Secret of type Opaque
\* with the toggle on, the diff of any other resource is the same whatever
\* the toggle, and the opening of a diff sets the toggle off
C22_Theorem ==
    /\ []Gated
    /\ [][(dialogOpen' /\ ~dialogOpen) => ~showDecodedContent']_vars

\* the diff of a Secret that is not opaque is on display, its values
\* base64 that decodes to other texts
C22_Witness ==
    /\ dialogOpen
    /\ selectedComparison.type = "Secret"
    /\ selectedComparison.mainResource.type # "Opaque"
    /\ selectedComparison.replicaResource.type # "Opaque"
    /\ ShownDiffs # {}
    /\ decodeBase64Data(DataOf(selectedComparison.mainResource))
           # DataOf(selectedComparison.mainResource)

\* the body lines of a patch that renderSelectableDiff walks, by their op
BodyLines(diff, op) ==
    LET is(pl) == pl.op = op
    IN SelectSeq(SelectSeq(diff.text, IsContentLine), is)

\* the entries of one side of a line mapping, in the order they were set
SideEntries(mapping, side) ==
    LET on(e) == e.lineId.side = side IN SelectSeq(mapping, on)

\* the entries of a line mapping of one type
TypeEntries(mapping, type) ==
    LET of(e) == e.type = type IN SelectSeq(mapping, of)

\* C23: in the line mapping of a patch the deletions are on the left and
\* as many as the "-" lines, the additions on the right and as many as
\* the "+" lines, each context line is on both sides with one content,
\* the numbers of each side are 1, 2, ... in the order of the walk, and no
\* id is given to two lines
C23_Theorem ==
    \A shown \in ShownDiffs :
        LET mapping == lineMapping(shown.diff)
            left == SideEntries(mapping, "L")
            right == SideEntries(mapping, "R")
            context == TypeEntries(mapping, "context")
        IN /\ \A i \in 1..Len(left) : left[i].lineId.num = i
           /\ \A i \in 1..Len(right) : right[i].lineId.num = i
           /\ Distinct([i \in 1..Len(mapping) |-> mapping[i].lineId])
           /\ TypeEntries(left, "addition") = <<>>
           /\ TypeEntries(right, "deletion") = <<>>
           /\ Len(TypeEntries(mapping, "deletion"))
                  = Len(BodyLines(shown.diff, "-"))
           /\ Len(TypeEntries(mapping, "addition"))
                  = Len(BodyLines(shown.diff, "+"))
           /\ Len(context) = 2 * Len(BodyLines(shown.diff, " "))
           /\ \A i \in 1..Len(BodyLines(shown.diff, " ")) :
                  /\ context[2 * i - 1].lineId.side = "L"
                  /\ context[2 * i].lineId.side = "R"
                  /\ context[2 * i - 1].content = context[2 * i].content
                  /\ context[2 * i].content = BodyLines(shown.diff, " ")[i].line

\* a diff is on display with a deletion, an addition and a context line
\* whose numbers on the two sides differ
C23_Witness ==
    \E shown \in ShownDiffs :
        LET mapping == lineMapping(shown.diff)
            context == TypeEntries(mapping, "context")
        IN /\ TypeEntries(mapping, "deletion") # <<>>
           /\ TypeEntries(mapping, "addition") # <<>>
           /\ \E i \in 1..(Len(context) - 1) :
                  /\ context[i].lineId.side = "L"
                  /\ context[i + 1].lineId.side = "R"
                  /\ context[i].lineId.num # context[i + 1].lineId.num

----------------------------------------------------------------------------
(* The objects of a merge: a resource is an object that holds the         *)
(* reference of its data object; a reference is a name                    *)

\* the objects of the destination resource of a direction: the resource
\* and its data, of comparison.mainResource or comparison.replicaResource
DestinationObject(direction) ==
    LET side == IF direction = "main-to-replica" THEN "replica" ELSE "main"
    IN [object |-> side, data |-> side \o ".data"]

\* a variant that takes the resource itself for its copy
deepCopyNone(resource) == resource

\* JSON.parse(JSON.stringify(resource)): a new object with a new data object
deepCopy(resource) == [object |-> "merged", data |-> "merged.data"]

\* the objects that the rounds of Object.keys(changesByResource).forEach
\* write into: mergedResource.data[key] = ... writes into the data object
\* mergedResource holds, mergedResource.data = {...} writes into
\* mergedResource and makes it hold a new data object
RECURSIVE writtenObjects(_, _, _, _, _)
writtenObjects(merged, mergedData, resourceKeys, lines, sourceResource) ==
    IF resourceKeys = <<>> THEN {}
    ELSE LET changes == changesOf(lines, Head(resourceKeys))
             firstChange == changes[1]
             sourceData == DataOf(sourceResource)
             affectedKeys == affectedKeysOf(changes)
             perKey == firstChange.resourceType = "ConfigMap"
             keyWrite ==
                 IF perKey THEN ~Falsy(firstChange.key) /\ mergedData.defined
                 ELSE /\ sourceData.defined /\ mergedData.defined
                      /\ \E k \in SeqToSet(affectedKeys) :
                             Get(sourceData.entries, k) # Undefined
             dataWrite ==
                 /\ ~perKey
                 /\ sourceData.defined /\ mergedData.defined
                 /\ Len(affectedKeys) = 0
         IN (IF keyWrite THEN {merged.data}
             ELSE IF dataWrite THEN {merged.object} ELSE {})
            \cup writtenObjects(
                     IF dataWrite THEN [merged EXCEPT !.data = "spread"]
                     ELSE merged,
                     applyChanges(mergedData, changes, sourceResource),
                     Tail(resourceKeys), lines, sourceResource)

\* the objects written by the merge of the call just made
MergeWrites ==
    writtenObjects(deepCopy(DestinationObject(lastMerge.direction)),
                   destinationOf(selectedComparison, lastMerge.direction).data,
                   GroupKeys(selectedLines), selectedLines,
                   sourceOf(selectedComparison, lastMerge.direction))

\* the merge of the call just made has returned a copy of the destination
MergedACopy ==
    /\ lastMerge.called
    /\ lastMerge.result.kind = "resource"
    /\ destinationOf(selectedComparison, lastMerge.direction) # Null

\* C24: a merge that returns a merged snapshot writes into no object of
\* the comparison's mainResource and replicaResource, and the snapshot it
\* returns is made of objects that did not exist before
C24_Theorem ==
    MergedACopy
    => LET merged == deepCopy(DestinationObject(lastMerge.direction))
           inputObjects ==
               UNION {{DestinationObject(d).object, DestinationObject(d).data} :
                          d \in Directions}
       IN /\ MergeWrites \cap inputObjects = {}
          /\ merged.object \notin inputObjects
          /\ merged.data \notin inputObjects

\* a merge has written a key into the data of its copy and returned data
\* that differ from the destination's
C24_Witness ==
    /\ MergedACopy
    /\ "merged.data" \in MergeWrites
    /\ lastMerge.result.value
           # destinationOf(selectedComparison, lastMerge.direction)

----------------------------------------------------------------------------
(* Claims on the apply, checked under Spec *)

\* the resource of the request that the cluster of that side holds
HeldBy(store, request) ==
    MapGet(ListOf(store, request.resourceType), request.resourceName)

\* C25: a request main-to-replica carries the resource the main cluster
\* holds and leaves the main cluster as it is, a request replica-to-main
\* carries the resource the replica holds and leaves the replica as it
\* is; after a request that succeeded the other cluster holds the resource
C25_Theorem ==
    [][lastRequest'.sent
       => IF lastRequest'.direction = "main-to-replica"
          THEN /\ lastRequest'.resourceData = HeldBy(mainStore, lastRequest')
               /\ lastRequest'.resourceData # Null
               /\ mainStore' = mainStore
               /\ error' = None
                  => HeldBy(replicaStore', lastRequest')
                         = lastRequest'.resourceData
          ELSE /\ lastRequest'.direction = "replica-to-main"
               /\ lastRequest'.resourceData
                      = HeldBy(replicaStore, lastRequest')
               /\ lastRequest'.resourceData # Null
               /\ replicaStore' = replicaStore
               /\ error' = None
                  => HeldBy(mainStore', lastRequest')
                         = lastRequest'.resourceData]_vars

\* a request replica-to-main has written the replica's resource to the
\* main cluster
C25_Witness ==
    /\ lastRequest.sent
    /\ error = None
    /\ lastRequest.direction = "replica-to-main"
    /\ HeldBy(mainStore, lastRequest) = lastRequest.resourceData
    /\ HeldBy(replicaStore, lastRequest) = lastRequest.resourceData

\* C26: after Apply Changes is confirmed for a resource that both
\* clusters hold with different data, the target cluster holds the data
\* that were sent and the comparison that follows reports the resource
\* identical
C26_Claim ==
    [][(/\ lastRequest'.sent
        /\ confirmDialog.resource.status = "different"
        /\ confirmDialog.resource.mainExists
        /\ confirmDialog.resource.replicaExists)
       => /\ HeldBy(IF lastRequest'.direction = "main-to-replica"
                    THEN replicaStore' ELSE mainStore', lastRequest').data
                 = lastRequest'.resourceData.data
          /\ \A c \in AllResources(comparisons') :
                 (/\ c.name = lastRequest'.resourceName
                  /\ c.type = lastRequest'.resourceType)
                 => c.status = "identical"]_vars

----------------------------------------------------------------------------
(* The shape of the lists of compareResources, checked under SpecCompare *)

\* one returned list against the two lists it was computed from
WellFormedList(list, mainResources, replicaResources) ==
    LET inMain == NamesOf(mainResources)
        inReplica == NamesOf(replicaResources)
    IN /\ \A name \in inMain \cup inReplica :
              Cardinality({i \in 1..Len(list) : list[i].name = name}) = 1
       /\ \A i \in 1..Len(list) :
              /\ list[i].name \in inMain \cup inReplica
              /\ list[i].mainExists <=> list[i].name \in inMain
              /\ list[i].replicaExists <=> list[i].name \in inReplica
              /\ list[i].status \in {"identical", "different"}
                     => (list[i].mainExists /\ list[i].replicaExists)
              /\ list[i].diff # Null <=> list[i].status = "different"

\* C27: every list of a comparison has exactly one entry for each name of
\* either input list and none for any other name; mainExists and
\* replicaExists tell the presence of the name in the inputs; the status
\* is identical or different only when both exist; the diff is non-null
\* exactly when the status is different
C27_Theorem ==
    \A k \in 1..Len(comparisons) :
        /\ WellFormedList(comparisons[k].secrets,
                          mainStore.secrets, replicaStore.secrets)
        /\ WellFormedList(comparisons[k].configMaps,
                          mainStore.configMaps, replicaStore.configMaps)

C27_Witness ==
    \E k \in 1..Len(comparisons) :
        /\ Len(comparisons[k].secrets) >= 2
        /\ \E i, j \in 1..Len(comparisons[k].secrets) :
               /\ comparisons[k].secrets[i].status = "different"
               /\ comparisons[k].secrets[j].status \in
                      {"main-only", "replica-only"}
        /\ \E i \in 1..Len(comparisons[k].configMaps) :
               comparisons[k].configMaps[i].status = "identical"

----------------------------------------------------------------------------
(* The keys a merge keeps, checked under SpecMerge *)

\* the keys the ConfigMap branch assigns: firstChange.key of each group
PerKeyKeys(lines) ==
    {l.key : l \in {changesOf(lines, GroupKey(lines[i]))[1] :
                        i \in 1..Len(lines)} \cap
                   {l \in SeqToSet(lines) : /\ l.resourceType = "ConfigMap"
                                            /\ ~Falsy(l.key)}}

\* the keys the other branch recovers from the lines' content
BlobKeys(lines) ==
    {matchKey(lines[i].lineContent) :
         i \in {j \in 1..Len(lines) : lines[j].resourceType # "ConfigMap"}}
    \ {Undefined}

\* a merge that returned a snapshot of a destination that has a data map
MergedOverData ==
    /\ lastMerge.called
    /\ lastMerge.result.kind = "resource"
    /\ destinationOf(selectedComparison, lastMerge.direction) # Null
    /\ DataOf(destinationOf(selectedComparison, lastMerge.direction)).defined

\* C28: the merged snapshot has every key of the destination; a selected
\* key the source lacks is the empty string where the ConfigMap branch
\* assigned it, and has the destination's value (or stays absent) where
\* only the other branch met it
C28_Theorem ==
    MergedOverData =>
        /\ KeySet(DestinationData) \subseteq KeySet(MergedData)
        /\ \A k \in PerKeyKeys(selectedLines) \ KeySet(SourceData) :
               Get(MergedData, k) = ""
        /\ \A k \in (BlobKeys(selectedLines) \ KeySet(SourceData))
                        \ PerKeyKeys(selectedLines) :
               Get(MergedData, k) = Get(DestinationData, k)

C28_Witness ==
    /\ MergedOverData
    /\ KeySet(DestinationData) \ KeySet(SourceData) # {}
    /\ \/ \E k \in PerKeyKeys(selectedLines) \ KeySet(SourceData) :
              k \in KeySet(DestinationData) /\ Get(DestinationData, k) # ""
       \/ \E k \in BlobKeys(selectedLines) \ KeySet(SourceData) :
              k \in KeySet(DestinationData)
    /\ KeySet(MergedData) # KeySet(DestinationData)

----------------------------------------------------------------------------
(* Claims on the backend's cluster configurations, under SpecBackend *)

\* C29: no request makes a call on a cluster unless both configurations
\* are set: with mainCluster or replicaCluster null, a request of
\* namespaces, compare-resources or apply-changes is answered 400, makes
\* no call and leaves the clusters as they are; a configuration that is
\* set never becomes null again
C29_Theorem ==
    [][/\ (mainCluster = Null \/ replicaCluster = Null)
           => /\ lastResponse'.calls = <<>>
              /\ UNCHANGED <<mainStore, replicaStore>>
              /\ lastResponse'.endpoint
                     \in {"namespaces", "compare-resources", "apply-changes"}
                     => lastResponse'.status = 400
       /\ mainCluster # Null => mainCluster' # Null
       /\ replicaCluster # Null => replicaCluster' # Null]_vars

C29_Witness ==
    /\ mainCluster # Null
    /\ replicaCluster = Null
    /\ lastResponse.endpoint = "apply-changes"
    /\ lastResponse.status = 400
    /\ lastResponse.calls = <<>>

\* C30: a request of upload-config answered 500 leaves mainCluster and
\* replicaCluster as they were before it
C30_Claim ==
    [][(lastResponse'.endpoint = "upload-config"
        /\ lastResponse'.status = 500)
       => UNCHANGED <<mainCluster, replicaCluster>>]_vars

====
